---- MODULE Spec2Model ----
(***************************************************************************)
(* Model of yanagi7393/MultiModalNets:                                     *)
(*   scripts/v002_sound2image.py   train(): checkpoint resumption, the     *)
(*                                 alternating WGAN-GP updates, periodic   *)
(*                                 evaluation and end-of-epoch saving      *)
(*   src/models/sound2image_v2.py  Generator / ImageFeature2Image /        *)
(*                                 Discriminator forward passes (shapes)   *)
(*                                                                         *)
(* Spec     is the trainer: one run of train() over every input            *)
(*          (checkpoint directories, dataset sizes, configuration).        *)
(* SpecRestart  is the trainer started on empty checkpoint directories,    *)
(*          killed at any point and restarted.                             *)
(* SpecNet  applies the forward passes of the networks to bounded inputs.  *)
(*                                                                         *)
(* train() reads the free name batch_size (lines 64, 92, 106), which the   *)
(* script itself never binds; it is modelled as a module global supplied   *)
(* by the caller's environment.  utils.py (load_model, save_model,         *)
(* calc_gp) and the modules/ building blocks are not part of the sources   *)
(* and are modelled from the specification.                                *)
(***************************************************************************)
EXTENDS Integers, Sequences, FiniteSets, TLC

\* ------------------------------------------------------------- bounds
MaxIters == 3
MaxData == 4
MaxBatchSize == 2
MaxTestData == 3
MaxTestEpoch == 2
MaxB == 2

\* ------------------------------------------------- program constants
\* load_model's result for a directory that holds no checkpoint: training
\* "starts from iteration zero", so it lies below every epoch index.
NoCheckpoint == -1

VARIABLES
    \* ---- trainer (train())
    pc,            \* position of train()
    err,           \* the exception that ended train(), or "none"
    config,        \* model_config: [iters, test_epoch]
    batch_size,    \* the global batch_size
    dataLen,       \* len(dataset)
    testLen,       \* len(test_dataset)
    gDir,          \* iterations checkpointed under G_checkpoint_dir
    dDir,          \* iterations checkpointed under D_checkpoint_dir
    g_last_iter,
    d_last_iter,
    last_iter,
    reloads,       \* targeted load_model(load_iter=..) calls made: <<net, iter>>
    netG,          \* [ckpt, steps, training, grad]
    netD,
    iter_,
    idx,
    testPos,       \* batches already drawn from iter(test_data_loader)
    images,        \* evaluation files written: <<iter_, idx>>
    saved,         \* save_model calls of this run: <<net, iter>>
    epochsRun,     \* epoch indices whose body was entered
    stepLog,       \* networks whose parameters an optimizer stepped, this mini-batch
    batchStart,    \* step counters at the start of the mini-batch
    gpArgs,        \* the tensors handed to calc_gp
    \* ---- networks (forward passes)
    ncfg,          \* constructor arguments: [norm, self_attention]
    nB,            \* batch size of the input tensors
    nIn,           \* identity of the input batch
    gOut,          \* result of Generator.forward(audio, is_feature=False)
    fOut,          \* result of Generator.forward(latent, is_feature=True)
    decOut,        \* result of ImageFeature2Image.forward(latent)
    dOut           \* result of Discriminator.forward(image)

trainerVars == <<pc, err, config, batch_size, dataLen, testLen, gDir, dDir,
                 g_last_iter, d_last_iter, last_iter, reloads, netG, netD,
                 iter_, idx, testPos, images, saved, epochsRun, stepLog,
                 batchStart, gpArgs>>
netVars == <<ncfg, nB, nIn, gOut, fOut, decOut, dOut>>
vars == <<trainerVars, netVars>>

\* ------------------------------------------------------------ helpers
Min2(a, b) == IF a <= b THEN a ELSE b
Max2(a, b) == IF a >= b THEN a ELSE b
SetMax(S) == CHOOSE x \in S : \A y \in S : y <= x
SetMin(S) == CHOOSE x \in S : \A y \in S : x <= y

\* ============================================================ trainer

\* len(DataLoader(dataset, batch_size)): drop_last is False, so the last
\* partial batch counts.
LoaderLen(n, bs) == (n + bs - 1) \div bs

NumBatches == LoaderLen(dataLen, batch_size)
NumTestBatches == LoaderLen(testLen, batch_size)

\* load_model(model, dir): the most recent checkpoint iteration of dir.
LatestIter(dir) == IF dir = {} THEN NoCheckpoint ELSE SetMax(dir)

\* A freshly constructed, weights_init-ed network.
FreshNet == [ckpt |-> NoCheckpoint, steps |-> 0, training |-> TRUE, grad |-> {}]

\* load_model(model, dir, load_iter=i): the parameters of checkpoint i.
Loaded(net, i) == [net EXCEPT !.ckpt = i, !.steps = 0]

\* last_iter = min(g_last_iter, d_last_iter)
ResumeIter_max(g, d) == Max2(g, d)
ResumeIter(g, d) == Min2(g, d)

\* if g_last_iter != last_iter: / if d_last_iter != last_iter:
NeedsReload_never(own, last) == FALSE
NeedsReload(own, last) == own # last

\* if iter_ <= last_iter: continue
SkipEpoch_lt(i, last) == i < last
SkipEpoch(i, last) == i <= last

\* optimizer_d = Adam(netD.parameters(), ..), optimizer_g = Adam(netG.parameters(), ..)
OptimizerD_params_G == "G"
OptimizerD_params == "D"
OptimizerG_params == "G"

\* netD.train(); netG.train()  (lines 160-161)
TrainMode_noop(net) == net
TrainMode(net) == [net EXCEPT !.training = TRUE]

\* netD.eval(); netG.eval()  (lines 207-208)
EvalMode(net) == [net EXCEPT !.training = FALSE]

\* calc_gp(real_images=netD(data_dict["frame"]), fake_images=gen_frames.detach())
GpRealArg == [tensor |-> "netD(frame)", kind |-> "score"]
GpFakeArg == [tensor |-> "gen_frames.detach()", kind |-> "image"]

NoGp == [real |-> [tensor |-> "none", kind |-> "none"],
         fake |-> [tensor |-> "none", kind |-> "none"]]

Prefix(k) == 0 .. k

TrainerIdle ==
    /\ pc = "idle" /\ err = "none"
    /\ config = [iters |-> 0, test_epoch |-> 0]
    /\ batch_size = 1 /\ dataLen = 0 /\ testLen = 0
    /\ gDir = {} /\ dDir = {}
    /\ g_last_iter = NoCheckpoint /\ d_last_iter = NoCheckpoint
    /\ last_iter = NoCheckpoint
    /\ reloads = {} /\ netG = FreshNet /\ netD = FreshNet
    /\ iter_ = 0 /\ idx = 0 /\ testPos = 0 /\ images = {} /\ saved = {}
    /\ epochsRun = {} /\ stepLog = <<>>
    /\ batchStart = [g |-> 0, d |-> 0]
    /\ gpArgs = NoGp

NetIdle ==
    /\ ncfg = [norm |-> "BN", self_attention |-> TRUE]
    /\ nB = 1 /\ nIn = 1
    /\ gOut = [state |-> "none"] /\ fOut = [state |-> "none"]
    /\ decOut = [state |-> "none"] /\ dOut = [state |-> "none"]

\* The inputs of one run of train(): the configuration override, the two
\* datasets, the global batch_size and the checkpoint directories, each
\* holding the checkpoints 0..k that earlier runs with this configuration
\* wrote (k < iters), or nothing.
TrainInit ==
    /\ pc = "start" /\ err = "none"
    /\ config \in [iters : 1 .. MaxIters, test_epoch : 0 .. MaxTestEpoch]
    /\ batch_size \in 1 .. MaxBatchSize
    /\ dataLen \in 0 .. MaxData
    /\ testLen \in 0 .. MaxTestData
    /\ \E g \in NoCheckpoint .. config.iters - 1 : gDir = Prefix(g)
    /\ \E d \in NoCheckpoint .. config.iters - 1 : dDir = Prefix(d)
    /\ g_last_iter = NoCheckpoint /\ d_last_iter = NoCheckpoint
    /\ last_iter = NoCheckpoint
    /\ reloads = {} /\ netG = FreshNet /\ netD = FreshNet
    /\ iter_ = 0 /\ idx = 0 /\ testPos = 0 /\ images = {} /\ saved = {}
    /\ epochsRun = {} /\ stepLog = <<>>
    /\ batchStart = [g |-> 0, d |-> 0]
    /\ gpArgs = NoGp

Init == TrainInit /\ NetIdle

\* lines 40-119: configuration, data loaders, iter(test_data_loader),
\* construction and weight initialisation of both networks.
Setup ==
    /\ pc = "start"
    /\ pc' = "load"
    /\ testPos' = 0
    /\ netG' = FreshNet
    /\ netD' = FreshNet
    /\ UNCHANGED <<err, config, batch_size, dataLen, testLen, gDir, dDir,
                   g_last_iter, d_last_iter, last_iter, reloads, iter_, idx,
                   images, saved, epochsRun, stepLog, batchStart, gpArgs>>
    /\ UNCHANGED netVars

\* lines 121-130: load both networks' latest checkpoints, then roll the one
\* that is ahead back to the common iteration.  A targeted load of a
\* checkpoint that the directory does not hold raises.
LoadModels ==
    /\ pc = "load"
    /\ LET g == LatestIter(gDir)
           d == LatestIter(dDir)
           last == ResumeIter(g, d)
           gRe == NeedsReload(g, last)
           gBad == gRe /\ last \notin gDir
           dRe == (~gBad) /\ NeedsReload(d, last)
           dBad == dRe /\ last \notin dDir
       IN /\ g_last_iter' = g
          /\ d_last_iter' = d
          /\ last_iter' = last
          /\ reloads' = (IF gRe THEN {<<"G", last>>} ELSE {})
                           \cup (IF dRe THEN {<<"D", last>>} ELSE {})
          /\ netG' = IF gRe /\ ~gBad THEN Loaded(netG, last) ELSE Loaded(netG, g)
          /\ netD' = IF dRe /\ ~dBad THEN Loaded(netD, last) ELSE Loaded(netD, d)
          /\ IF gBad \/ dBad
                THEN pc' = "error" /\ err' = "FileNotFoundError"
                ELSE pc' = "epoch" /\ err' = err
    /\ iter_' = 0
    /\ UNCHANGED <<config, batch_size, dataLen, testLen, gDir, dDir, idx,
                   testPos, images, saved, epochsRun, stepLog, batchStart,
                   gpArgs>>
    /\ UNCHANGED netVars

\* lines 149-153: for iter_ in range(iters): skip the epochs already done.
EpochHead ==
    /\ pc = "epoch"
    /\ IF iter_ >= config.iters
          THEN pc' = "done" /\ UNCHANGED <<iter_, idx, epochsRun>>
          ELSE IF SkipEpoch(iter_, last_iter)
                  THEN /\ iter_' = iter_ + 1
                       /\ UNCHANGED <<pc, idx, epochsRun>>
                  ELSE /\ pc' = "batch"
                       /\ idx' = 0
                       /\ epochsRun' = epochsRun \cup {iter_}
                       /\ UNCHANGED iter_
    /\ UNCHANGED <<err, config, batch_size, dataLen, testLen, gDir, dDir,
                   g_last_iter, d_last_iter, last_iter, reloads, netG, netD,
                   testPos, images, saved, stepLog, batchStart, gpArgs>>
    /\ UNCHANGED netVars

\* lines 153-161: the next mini-batch of enumerate(data_loader), both
\* networks put in training mode; or the end of the epoch.
FetchBatch ==
    /\ pc = "batch"
    /\ IF idx < NumBatches
          THEN /\ pc' = "zero_d"
               /\ netG' = TrainMode(netG)
               /\ netD' = TrainMode(netD)
               /\ stepLog' = <<>>
               /\ batchStart' = [g |-> netG.steps, d |-> netD.steps]
          ELSE /\ pc' = "save_g"
               /\ UNCHANGED <<netG, netD, stepLog, batchStart>>
    /\ UNCHANGED <<err, config, batch_size, dataLen, testLen, gDir, dDir,
                   g_last_iter, d_last_iter, last_iter, reloads, iter_, idx,
                   testPos, images, saved, epochsRun, gpArgs>>
    /\ UNCHANGED netVars

\* lines 166-167 (and 190-191): netD.zero_grad(); netG.zero_grad()
ZeroGrad(next) ==
    /\ netG' = [netG EXCEPT !.grad = {}]
    /\ netD' = [netD EXCEPT !.grad = {}]
    /\ pc' = next
    /\ UNCHANGED <<err, config, batch_size, dataLen, testLen, gDir, dDir,
                   g_last_iter, d_last_iter, last_iter, reloads, iter_, idx,
                   testPos, images, saved, epochsRun, stepLog, batchStart,
                   gpArgs>>
    /\ UNCHANGED netVars

UpdateD_ZeroGrad == pc = "zero_d" /\ ZeroGrad("d_backward")

\* lines 169-183: D_real, D_fake on the detached fakes, the gradient
\* penalty, d_loss.backward().  The generated frames are detached, so only
\* the Discriminator accumulates gradient.
UpdateD_Backward ==
    /\ pc = "d_backward"
    /\ gpArgs' = [real |-> GpRealArg, fake |-> GpFakeArg]
    /\ netD' = [netD EXCEPT !.grad = @ \cup {"d_loss"}]
    /\ pc' = "d_step"
    /\ UNCHANGED <<err, config, batch_size, dataLen, testLen, gDir, dDir,
                   g_last_iter, d_last_iter, last_iter, reloads, netG, iter_,
                   idx, testPos, images, saved, epochsRun, stepLog,
                   batchStart>>
    /\ UNCHANGED netVars

\* optimizer.step() of an optimizer built over the parameters of `target`.
OptimizerStep(target, next) ==
    /\ netG' = IF target = "G" THEN [netG EXCEPT !.steps = @ + 1] ELSE netG
    /\ netD' = IF target = "D" THEN [netD EXCEPT !.steps = @ + 1] ELSE netD
    /\ stepLog' = Append(stepLog, target)
    /\ pc' = next
    /\ UNCHANGED <<err, config, batch_size, dataLen, testLen, gDir, dDir,
                   g_last_iter, d_last_iter, last_iter, reloads, iter_, idx,
                   testPos, images, saved, epochsRun, batchStart, gpArgs>>
    /\ UNCHANGED netVars

\* line 185: optimizer_d.step()
UpdateD_Step == pc = "d_step" /\ OptimizerStep(OptimizerD_params, "zero_g")

UpdateG_ZeroGrad == pc = "zero_g" /\ ZeroGrad("g_backward")

\* lines 193-196: DG_fake = netD(netG(mel_data)); g_loss.backward().  The
\* loss runs through both networks, so both accumulate gradient.
UpdateG_Backward ==
    /\ pc = "g_backward"
    /\ netG' = [netG EXCEPT !.grad = @ \cup {"g_loss"}]
    /\ netD' = [netD EXCEPT !.grad = @ \cup {"g_loss"}]
    /\ pc' = "g_step"
    /\ UNCHANGED <<err, config, batch_size, dataLen, testLen, gDir, dDir,
                   g_last_iter, d_last_iter, last_iter, reloads, iter_, idx,
                   testPos, images, saved, epochsRun, stepLog, batchStart,
                   gpArgs>>
    /\ UNCHANGED netVars

\* line 198: optimizer_g.step()
UpdateG_Step == pc = "g_step" /\ OptimizerStep(OptimizerG_params, "periodic")

\* lines 200-237: the periodic print and the periodic evaluation.  The print
\* (print_epoch keeps its default, 100) changes no state.
\* idx % test_epoch raises ZeroDivisionError for test_epoch = 0; next() on
\* the exhausted test iterator raises StopIteration; neither is caught.
Periodic ==
    /\ pc = "periodic"
    /\ IF config.test_epoch = 0
          THEN /\ pc' = "error" /\ err' = "ZeroDivisionError"
               /\ UNCHANGED <<netG, netD, testPos, images, idx>>
          ELSE IF idx % config.test_epoch = 0
                  THEN /\ netG' = EvalMode(netG)
                       /\ netD' = EvalMode(netD)
                       /\ IF testPos < NumTestBatches
                             THEN /\ testPos' = testPos + 1
                                  /\ images' = images \cup {<<iter_, idx>>}
                                  /\ idx' = idx + 1
                                  /\ pc' = "batch" /\ err' = err
                             ELSE /\ pc' = "error" /\ err' = "StopIteration"
                                  /\ UNCHANGED <<testPos, images, idx>>
                  ELSE /\ idx' = idx + 1
                       /\ pc' = "batch" /\ err' = err
                       /\ UNCHANGED <<netG, netD, testPos, images>>
    /\ UNCHANGED <<config, batch_size, dataLen, testLen, gDir, dDir,
                   g_last_iter, d_last_iter, last_iter, reloads, iter_, saved,
                   epochsRun, stepLog, batchStart, gpArgs>>
    /\ UNCHANGED netVars

\* line 239: save_model(model=netG, dir=G_checkpoint_dir, iter=iter_)
SaveG ==
    /\ pc = "save_g"
    /\ gDir' = gDir \cup {iter_}
    /\ saved' = saved \cup {<<"G", iter_>>}
    /\ pc' = "save_d"
    /\ UNCHANGED <<err, config, batch_size, dataLen, testLen, dDir,
                   g_last_iter, d_last_iter, last_iter, reloads, netG, netD,
                   iter_, idx, testPos, images, epochsRun, stepLog, batchStart,
                   gpArgs>>
    /\ UNCHANGED netVars

\* line 240: save_model(model=netD, dir=D_checkpoint_dir, iter=iter_), and
\* the loop goes on to the next epoch.
SaveD ==
    /\ pc = "save_d"
    /\ dDir' = dDir \cup {iter_}
    /\ saved' = saved \cup {<<"D", iter_>>}
    /\ iter_' = iter_ + 1
    /\ pc' = "epoch"
    /\ UNCHANGED <<err, config, batch_size, dataLen, testLen, gDir,
                   g_last_iter, d_last_iter, last_iter, reloads, netG, netD,
                   idx, testPos, images, epochsRun, stepLog, batchStart,
                   gpArgs>>
    /\ UNCHANGED netVars

Next ==
    \/ Setup
    \/ LoadModels
    \/ EpochHead
    \/ FetchBatch
    \/ UpdateD_ZeroGrad
    \/ UpdateD_Backward
    \/ UpdateD_Step
    \/ UpdateG_ZeroGrad
    \/ UpdateG_Backward
    \/ UpdateG_Step
    \/ Periodic
    \/ SaveG
    \/ SaveD

Spec == Init /\ [][Next]_vars

\* ------------------------------------------------- killed and restarted
\* The first run of an experiment: as TrainInit, with both checkpoint
\* directories empty.
RestartInit ==
    /\ pc = "start" /\ err = "none"
    /\ config \in [iters : 1 .. MaxIters, test_epoch : 0 .. MaxTestEpoch]
    /\ batch_size \in 1 .. MaxBatchSize
    /\ dataLen \in 0 .. MaxData
    /\ testLen \in 0 .. MaxTestData
    /\ gDir = {} /\ dDir = {}
    /\ g_last_iter = NoCheckpoint /\ d_last_iter = NoCheckpoint
    /\ last_iter = NoCheckpoint
    /\ reloads = {} /\ netG = FreshNet /\ netD = FreshNet
    /\ iter_ = 0 /\ idx = 0 /\ testPos = 0 /\ images = {} /\ saved = {}
    /\ epochsRun = {} /\ stepLog = <<>>
    /\ batchStart = [g |-> 0, d |-> 0]
    /\ gpArgs = NoGp

InitRestart == RestartInit /\ NetIdle

Running == pc \in {"start", "load", "epoch", "batch", "zero_d", "d_backward",
                   "d_step", "zero_g", "g_backward", "g_step", "periodic",
                   "save_g", "save_d"}

\* The process is terminated from outside, between any two steps of train().
\* What is on disk stays; everything else is lost.
Kill ==
    /\ Running
    /\ pc' = "killed"
    /\ UNCHANGED <<err, config, batch_size, dataLen, testLen, gDir, dDir,
                   g_last_iter, d_last_iter, last_iter, reloads, netG, netD,
                   iter_, idx, testPos, images, saved, epochsRun, stepLog,
                   batchStart, gpArgs>>
    /\ UNCHANGED netVars

\* train() is called again with the same arguments after a run was killed
\* or ended with an exception: the checkpoint directories and the evaluation
\* images are what the earlier runs left, the rest starts anew.
Restart ==
    /\ pc \in {"killed", "error"}
    /\ pc' = "start" /\ err' = "none"
    /\ g_last_iter' = NoCheckpoint /\ d_last_iter' = NoCheckpoint
    /\ last_iter' = NoCheckpoint
    /\ reloads' = {} /\ netG' = FreshNet /\ netD' = FreshNet
    /\ iter_' = 0 /\ idx' = 0 /\ testPos' = 0 /\ saved' = {}
    /\ epochsRun' = {} /\ stepLog' = <<>>
    /\ batchStart' = [g |-> 0, d |-> 0]
    /\ gpArgs' = NoGp
    /\ UNCHANGED <<config, batch_size, dataLen, testLen, gDir, dDir, images>>
    /\ UNCHANGED netVars

NextRestart ==
    \/ Next
    \/ Kill
    \/ Restart

SpecRestart == InitRestart /\ [][NextRestart]_vars

\* =========================================================== networks
\* A tensor is its shape, the layers its values went through (val) and the
\* channel count after every block (chans); a raised exception is a value.
Tensor(shape, val, chans) ==
    [ok |-> TRUE, shape |-> shape, val |-> val, chans |-> chans, error |-> "none"]
Raise(e) ==
    [ok |-> FALSE, shape |-> <<>>, val |-> <<>>, chans |-> <<>>, error |-> e]

RECURSIVE Numel(_)
Numel(shape) == IF shape = <<>> THEN 1 ELSE Head(shape) * Numel(Tail(shape))

\* FirstBlockDown2d / InvertedRes2d with downscale=True: in_channels ->
\* out_channels, both spatial dimensions halved.
BlockDown(t, name, cin, cout) ==
    IF ~t.ok THEN t
    ELSE IF Len(t.shape) # 4 \/ t.shape[2] # cin THEN Raise("RuntimeError")
    ELSE Tensor(<<t.shape[1], cout, t.shape[3] \div 2, t.shape[4] \div 2>>,
                Append(t.val, name), Append(t.chans, cout))

\* BlockUpsample2d: in_channels -> out_channels, both spatial dimensions
\* doubled.
BlockUpsample2d(t, name, cin, cout) ==
    IF ~t.ok THEN t
    ELSE IF Len(t.shape) # 4 \/ t.shape[2] # cin THEN Raise("RuntimeError")
    ELSE Tensor(<<t.shape[1], cout, t.shape[3] * 2, t.shape[4] * 2>>,
                Append(t.val, name), Append(t.chans, cout))

\* SelfAttention2d(in_channels): the shape is kept.
SelfAttention2d(t, name, cin) ==
    IF ~t.ok THEN t
    ELSE IF Len(t.shape) # 4 \/ t.shape[2] # cin THEN Raise("RuntimeError")
    ELSE Tensor(t.shape, Append(t.val, name), t.chans)

\* NORMS[norm](num_channels) and the activations: the shape is kept.
Pointwise(t, name) ==
    IF ~t.ok THEN t ELSE Tensor(t.shape, Append(t.val, name), t.chans)

\* self.last_norm(x) where last_norm stays None when norm is None: calling
\* None raises TypeError.
CallLastNorm(norm, t) ==
    IF ~t.ok THEN t
    ELSE IF norm = "None" THEN Raise("TypeError")
    ELSE Pointwise(t, "last_norm")

\* if self.last_norm is not None: x = self.last_norm(x)
GuardedLastNorm(norm, t) == IF norm = "None" THEN t ELSE CallLastNorm(norm, t)

\* if self.sa_layer is not None: x = self.sa_layer(x)
GuardedSelfAttention(self_attention, t, cin) ==
    IF self_attention THEN SelfAttention2d(t, "sa_layer", cin) ELSE t

\* nn.AdaptiveAvgPool2d([h, w])
AdaptiveAvgPool2d(t, h, w) ==
    IF ~t.ok THEN t
    ELSE IF Len(t.shape) # 4 \/ t.shape[3] < 1 \/ t.shape[4] < 1
            THEN Raise("RuntimeError")
    ELSE Tensor(<<t.shape[1], t.shape[2], h, w>>,
                Append(t.val, "global_avg_pool"), t.chans)

\* nn.Conv2d(cin, cout, kernel_size=k, padding=0, stride=1)
Conv2d(t, name, cin, cout, k) ==
    IF ~t.ok THEN t
    ELSE IF Len(t.shape) # 4 \/ t.shape[2] # cin
              \/ t.shape[3] < k \/ t.shape[4] < k THEN Raise("RuntimeError")
    ELSE Tensor(<<t.shape[1], cout, t.shape[3] - k + 1, t.shape[4] - k + 1>>,
                Append(t.val, name), Append(t.chans, cout))

\* tensor.view(-1, *rest): the values are kept, the leading dimension is
\* what remains of the element count.
View(t, rest) ==
    IF ~t.ok THEN t
    ELSE IF Numel(t.shape) % Numel(rest) # 0 THEN Raise("RuntimeError")
    ELSE Tensor(<<Numel(t.shape) \div Numel(rest)>> \o rest, t.val, t.chans)

\* AdaptiveAvgPool2d([2, 2]) of the Generator's encoder and the 2x2 kernel of
\* its last_conv (lines 268, 280).
EncoderPool == <<2, 2>>

\* ImageFeature2Image.forward
ImageFeature2Image_forward(cfg, input) ==
    LET x0 == View(input, <<4096, 1, 1>>)
        u1 == BlockUpsample2d(x0, "up_block1", 4096, 512)
        u2 == BlockUpsample2d(u1, "up_block2", 512, 256)
        u3 == BlockUpsample2d(u2, "up_block3", 256, 128)
        u4 == BlockUpsample2d(u3, "up_block4", 128, 64)
        u5 == BlockUpsample2d(u4, "up_block5", 64, 64)
        sa == GuardedSelfAttention(cfg.self_attention, u5, 64)
        u6 == BlockUpsample2d(sa, "up_block6", 64, 32)
        u7 == BlockUpsample2d(u6, "up_block7", 32, 32)
        u8 == BlockUpsample2d(u7, "up_block8", 32, 16)
        n  == GuardedLastNorm(cfg.norm, u8)
        a  == Pointwise(n, "last_act")
        c  == Conv2d(a, "last_conv", 16, 3, 1)
    IN  Pointwise(c, "last_tanh")

\* The encoder half of Generator.forward (lines 297-320).
Generator_encode(cfg, input) ==
    LET d1 == BlockDown(input, "dn_block1", 2, 16)
        d2 == BlockDown(d1, "dn_block2", 16, 32)
        d3 == BlockDown(d2, "dn_block3", 32, 64)
        d4 == BlockDown(d3, "dn_block4", 64, 128)
        sa == GuardedSelfAttention(cfg.self_attention, d4, 128)
        d5 == BlockDown(sa, "dn_block5", 128, 256)
        d6 == BlockDown(d5, "dn_block6", 256, 512)
        n  == CallLastNorm(cfg.norm, d6)
        a  == Pointwise(n, "last_act")
        p  == AdaptiveAvgPool2d(a, EncoderPool[1], EncoderPool[2])
        c  == Conv2d(p, "last_conv", 512, 4096, 2)
    IN  View(c, <<4096>>)

Returned(image, latent) ==
    IF ~latent.ok
       THEN [state |-> "raised", image |-> latent, latent |-> latent,
             error |-> latent.error]
    ELSE IF ~image.ok
       THEN [state |-> "raised", image |-> image, latent |-> image,
             error |-> image.error]
    ELSE [state |-> "returned", image |-> image, latent |-> latent,
          error |-> "none"]

\* Generator.forward(input, is_feature): (generated_img, latent_vec)
Generator_forward(cfg, input, is_feature) ==
    LET latent_vec == IF is_feature = FALSE
                         THEN Generator_encode(cfg, input)
                         ELSE input
    IN  Returned(ImageFeature2Image_forward(cfg, latent_vec), latent_vec)

\* Discriminator.forward
Discriminator_forward(cfg, input) ==
    LET d1 == BlockDown(input, "dn_block1", 3, 8)
        d2 == BlockDown(d1, "dn_block2", 8, 16)
        d3 == BlockDown(d2, "dn_block3", 16, 32)
        sa == GuardedSelfAttention(cfg.self_attention, d3, 32)
        d4 == BlockDown(sa, "dn_block4", 32, 64)
        d5 == BlockDown(d4, "dn_block5", 64, 128)
        d6 == BlockDown(d5, "dn_block6", 128, 256)
        n  == GuardedLastNorm(cfg.d_norm, d6)
        a  == Pointwise(n, "last_act")
        p  == AdaptiveAvgPool2d(a, 1, 1)
    IN  Conv2d(p, "output", 256, 1, 1)

Single(t) ==
    [state |-> IF t.ok THEN "returned" ELSE "raised", out |-> t]

\* The input batches.
AudioInput(B, id) ==
    Tensor(<<B, 2, 1024, 128>>, <<(<<"mel_1", "mel_2">>)[id]>>, <<2>>)
FrameInput(B, id) ==
    Tensor(<<B, 3, 256, 256>>, <<(<<"frame_1", "frame_2">>)[id]>>, <<3>>)
LatentInput(B, id) ==
    Tensor(<<B, 4096>>, <<(<<"latent_1", "latent_2">>)[id]>>, <<4096>>)

\* The networks as constructed (Generator(self_attention, norm),
\* Discriminator(self_attention, norm); dropout keeps its default 0) and
\* one input batch.
NetInit ==
    /\ ncfg \in [norm : {"BN", "None"}, d_norm : {"None", "BN"},
                 self_attention : BOOLEAN]
    /\ nB \in 1 .. MaxB
    /\ nIn \in 1 .. 2
    /\ gOut = [state |-> "none"] /\ fOut = [state |-> "none"]
    /\ decOut = [state |-> "none"] /\ dOut = [state |-> "none"]

InitNet == TrainerIdle /\ NetInit

\* netG(audio_features): the full forward pass.
CallGenerator ==
    /\ gOut.state = "none"
    /\ gOut' = Generator_forward(ncfg, AudioInput(nB, nIn), FALSE)
    /\ UNCHANGED <<ncfg, nB, nIn, fOut, decOut, dOut>>
    /\ UNCHANGED trainerVars

\* netG(latent, is_feature=True) on the latent the full pass returned.
CallGeneratorFeature ==
    /\ gOut.state = "returned"
    /\ fOut.state = "none"
    /\ fOut' = Generator_forward(ncfg, gOut.latent, TRUE)
    /\ UNCHANGED <<ncfg, nB, nIn, gOut, decOut, dOut>>
    /\ UNCHANGED trainerVars

\* ImageFeature2Image on a latent batch.
CallDecoder ==
    /\ decOut.state = "none"
    /\ decOut' = Single(ImageFeature2Image_forward(ncfg, LatentInput(nB, nIn)))
    /\ UNCHANGED <<ncfg, nB, nIn, gOut, fOut, dOut>>
    /\ UNCHANGED trainerVars

\* netD on a real frame batch or on the generated one.
CallDiscriminator ==
    /\ dOut.state = "none"
    /\ \E x \in {FrameInput(nB, nIn)}
                  \cup (IF gOut.state = "returned" THEN {gOut.image} ELSE {}) :
          dOut' = Single(Discriminator_forward(ncfg, x))
    /\ UNCHANGED <<ncfg, nB, nIn, gOut, fOut, decOut>>
    /\ UNCHANGED trainerVars

NextNet ==
    \/ CallGenerator
    \/ CallGeneratorFeature
    \/ CallDecoder
    \/ CallDiscriminator

SpecNet == InitNet /\ [][NextNet]_vars

\* ============================================================= claims
Started == pc \notin {"idle", "start", "load"}
InBatch == pc \in {"zero_d", "d_backward", "d_step", "zero_g", "g_backward",
                   "g_step", "periodic"}
DirOf(n) == IF n = "G" THEN gDir ELSE dDir
LastOf(n) == IF n = "G" THEN g_last_iter ELSE d_last_iter

\* C1: once the checkpoints are loaded, the loop resumes from the minimum of
\* the two latest checkpoint iterations, exactly the network that is ahead
\* of the minimum was reloaded from its checkpoint at the minimum, and
\* unless that load failed both networks hold the parameters of that one
\* iteration, in particular at the first optimizer step.
C1_ResumeFromMinimum ==
    Started =>
        /\ last_iter <= g_last_iter /\ last_iter <= d_last_iter
        /\ last_iter \in {g_last_iter, d_last_iter}
        /\ \A n \in {"G", "D"} :
              (<<n, last_iter>> \in reloads) <=> (LastOf(n) > last_iter)
        /\ \A r \in reloads : r[2] = last_iter
        /\ (err # "FileNotFoundError") =>
              (netG.ckpt = last_iter /\ netD.ckpt = last_iter)
        /\ (pc = "d_step" /\ netD.steps = 0) =>
              (netG.ckpt = netD.ckpt /\ netG.steps = 0)

\* C1 witness: the first discriminator step of a run in which the
\* Discriminator was ahead and was rolled back to the Generator's iteration.
C1_Witness ==
    /\ pc = "d_step" /\ netD.steps = 0
    /\ d_last_iter = 2 /\ g_last_iter = 0
    /\ reloads = {<<"D", 0>>}

\* C2 as stated: with the Generator at k and the Discriminator at k-1, the
\* Generator is reloaded to k-1 and the first epoch executed is k-1.
C2_FirstEpochIsKMinus1 ==
    (Started /\ d_last_iter >= 0 /\ g_last_iter = d_last_iter + 1) =>
        /\ <<"G", d_last_iter>> \in reloads
        /\ netG.ckpt = d_last_iter /\ netD.ckpt = d_last_iter
        /\ epochsRun # {} => SetMin(epochsRun) = d_last_iter

\* C2 amended: with the Generator at k and the Discriminator at k-1, the
\* Generator is reloaded to k-1, both networks hold iteration k-1, epoch k-1
\* is skipped and the first epoch executed is k.
C2_FirstEpochIsK ==
    (Started /\ d_last_iter >= 0 /\ g_last_iter = d_last_iter + 1) =>
        /\ <<"G", d_last_iter>> \in reloads
        /\ netG.ckpt = d_last_iter /\ netD.ckpt = d_last_iter
        /\ last_iter = d_last_iter
        /\ d_last_iter \notin epochsRun
        /\ epochsRun # {} => SetMin(epochsRun) = g_last_iter
        /\ (iter_ > g_last_iter \/ pc = "done") => g_last_iter \in epochsRun

\* C2 witness: the resumed run is inside epoch k = 2 after the Generator was
\* rolled back from 2 to 1.
C2_Witness ==
    /\ pc = "d_step" /\ g_last_iter = 2 /\ d_last_iter = 1
    /\ iter_ = 2 /\ netG.ckpt = 1

\* C3 as stated: an empty checkpoint directory is no error, no targeted
\* reload of a checkpoint that does not exist is attempted, and epoch 0 is
\* executed.
C3_EmptyDirStartsAtZero ==
    (Started /\ (g_last_iter = NoCheckpoint \/ d_last_iter = NoCheckpoint)) =>
        /\ err # "FileNotFoundError"
        /\ \A r \in reloads : r[2] \in DirOf(r[1])
        /\ (iter_ > 0 \/ InBatch \/ pc = "done") => 0 \in epochsRun

\* C4 as stated: exhaustion of the test iterator never surfaces as an error
\* and never aborts the training loop.
C4_TestIteratorRecycles == err # "StopIteration"

\* The end-to-end scenario: 4 samples, batch size 2, test_epoch = 0, one
\* epoch, empty checkpoint directories.
C5_Scenario ==
    /\ Started /\ dataLen = 4 /\ batch_size = 2
    /\ config.test_epoch = 0 /\ config.iters = 1
    /\ last_iter = NoCheckpoint /\ g_last_iter = NoCheckpoint
    /\ d_last_iter = NoCheckpoint

\* C5 as stated: in the scenario of 4 samples, batch size 2 and
\* test_epoch = 0, the epoch ends without error and has written exactly one
\* evaluation image, that of mini-batch 0.
C5_OneEpochOneImage ==
    C5_Scenario =>
        /\ err = "none"
        /\ pc = "done" => images = {<<0, 0>>}
        /\ \A f \in images : f = <<0, 0>>

\* C6: in every mini-batch the optimizers step the Discriminator once and
\* then the Generator once; the discriminator step leaves the Generator's
\* parameters as they were and the generator step the Discriminator's; both
\* networks' gradients are zero before each backward pass, so each step
\* applies the gradient of its own loss only.
C6_AlternatingSteps ==
    /\ pc \in {"d_backward", "g_backward"} => (netG.grad = {} /\ netD.grad = {})
    /\ pc \in {"zero_d", "d_backward", "d_step"} =>
          /\ stepLog = <<>>
          /\ netG.steps = batchStart.g /\ netD.steps = batchStart.d
    /\ pc = "d_step" => (netD.grad = {"d_loss"} /\ netG.grad = {})
    /\ pc \in {"zero_g", "g_backward", "g_step"} =>
          /\ stepLog = <<"D">>
          /\ netG.steps = batchStart.g /\ netD.steps = batchStart.d + 1
    /\ pc = "g_step" => netG.grad = {"g_loss"}
    /\ pc = "periodic" =>
          /\ stepLog = <<"D", "G">>
          /\ netG.steps = batchStart.g + 1 /\ netD.steps = batchStart.d + 1
    /\ (pc \in {"batch", "save_g", "save_d", "epoch", "done"} /\ stepLog # <<>>) =>
          stepLog = <<"D", "G">>
    /\ Started =>
          netG.steps = netD.steps
                         - (IF pc \in {"zero_g", "g_backward", "g_step"} THEN 1 ELSE 0)

\* C6 witness: both steps of the second mini-batch of a later epoch are done.
C6_Witness ==
    /\ pc = "periodic" /\ idx = 1 /\ iter_ = 1
    /\ stepLog = <<"D", "G">> /\ netG.steps >= 2

\* The executed epochs that have reached their end.
C7_Completed == IF pc \in {"epoch", "done"} THEN epochsRun ELSE epochsRun \ {iter_}

\* C7: every executed epoch ends, after all its mini-batches, by saving both
\* networks under that epoch index; nothing is saved for a skipped epoch;
\* a run that finishes has executed every epoch above the resumed iteration
\* and leaves iters-1 as the latest checkpoint of both networks.

C10_GpInterpolatesImages ==
    pc = "d_step" =>
        /\ gpArgs.real = [tensor |-> "frame", kind |-> "image"]
        /\ gpArgs.fake = [tensor |-> "gen_frames.detach()", kind |-> "image"]

Layers(t) == {t.val[i] : i \in 1 .. Len(t.val)}

\* C8 as stated: forward always returns the pair; with is_feature=False the
\* encoder ran on the input; with is_feature=True the encoder is skipped and
\* the returned latent is the input itself; the image decoded from the
\* returned latent equals the image of the full call.
C8_ForwardPairAndBypass ==
    /\ gOut.state # "none" =>
          /\ gOut.state = "returned"
          /\ "dn_block1" \in Layers(gOut.latent)
          /\ "last_tanh" \in Layers(gOut.image)
    /\ fOut.state # "none" =>
          /\ fOut.state = "returned"
          /\ fOut.latent = gOut.latent
          /\ fOut.image = gOut.image

\* C9 as stated: for every batch size B the encoder maps (B,2,1024,128)
\* through 2->16->32->64->128->256->512 to (B,4096), the decoder maps
\* (B,4096) through 4096->512->256->128->64->64->32->32->16 to (B,3,256,256)
\* and the Discriminator maps (B,3,256,256) through 3->8->16->32->64->128->256
\* to (B,1,1,1).
C9_Shapes ==
    /\ gOut.state # "none" =>
          /\ gOut.state = "returned"
          /\ gOut.latent.shape = <<nB, 4096>>
          /\ gOut.latent.chans = <<2, 16, 32, 64, 128, 256, 512, 4096>>
          /\ gOut.image.shape = <<nB, 3, 256, 256>>
    /\ decOut.state # "none" =>
          /\ decOut.state = "returned"
          /\ decOut.out.shape = <<nB, 3, 256, 256>>
          /\ decOut.out.chans = <<4096, 512, 256, 128, 64, 64, 32, 32, 16, 3>>
    /\ dOut.state # "none" =>
          /\ dOut.state = "returned"
          /\ dOut.out.shape = <<nB, 1, 1, 1>>
          /\ Len(dOut.out.chans) >= 8
          /\ SubSeq(dOut.out.chans, Len(dOut.out.chans) - 7, Len(dOut.out.chans))
                = <<3, 8, 16, 32, 64, 128, 256, 1>>

\* The evaluation of the previous mini-batch of this epoch has run, and no
\* mini-batch has started since.
C11_JustEvaluated == idx > 0 /\ <<iter_, idx - 1>> \in images

\* C11 as stated: the evaluation runs in evaluation mode, every optimizer
\* step is taken with both networks in training mode, and both networks are
\* in training mode when the end-of-epoch checkpoint is written.
C11_TrainModeAtStepsAndSave ==
    /\ (pc = "batch" /\ C11_JustEvaluated) => (~netG.training /\ ~netD.training)
    /\ InBatch => (netG.training /\ netD.training)
    /\ pc \in {"save_g", "save_d"} => (netG.training /\ netD.training)

\* C11 amended: the evaluation runs in evaluation mode, every optimizer step
\* (the one right after an evaluation included) is taken with both networks
\* in training mode, and the networks go back to training mode only at the
\* start of the next mini-batch: the end-of-epoch checkpoint is written in
\* training mode unless the epoch's last mini-batch was evaluated, and then
\* in evaluation mode.
C11_TrainModeAtSteps ==
    /\ (pc = "batch" /\ C11_JustEvaluated) => (~netG.training /\ ~netD.training)
    /\ InBatch => (netG.training /\ netD.training)
    /\ pc \in {"save_g", "save_d"} =>
          /\ netG.training <=> ~C11_JustEvaluated
          /\ netD.training <=> ~C11_JustEvaluated

\* C11 witness: the discriminator step of the mini-batch that follows an
\* evaluation, both networks back in training mode.
C11_Witness ==
    /\ pc = "d_step" /\ idx = 1 /\ <<iter_, 0>> \in images
    /\ netG.training /\ netD.training

\* C12 as stated (its safety part): over runs killed at any point and
\* restarted from what is on disk, the Generator's latest checkpoint is the
\* Discriminator's or one ahead of it, only the Generator is ever rolled
\* back, and the checkpoint it is rolled back to exists, so that the resume
\* never fails.
C12_RollbackTargetExists ==
    /\ LatestIter(gDir) \in {LatestIter(dDir), LatestIter(dDir) + 1}
    /\ \A r \in reloads : r[1] = "G" /\ r[2] \in gDir
    /\ err # "FileNotFoundError"

====
